---------------------------- MODULE Spec2Model ----------------------------
(***************************************************************************)
(* A model of the second-order recursive filter RecursiveConvolution       *)
(* (src/RecursiveConvolution.py, duplicated in src/cart.py) and of the      *)
(* step-response scenario that drives it.                                   *)
(*                                                                         *)
(* Python floats are modelled as binary floating-point numbers <<m, e>>     *)
(* with value m * 2^e and a 30-bit mantissa (2^29 <= |m| < 2^30, or         *)
(* <<0, 0>> for zero).  Every arithmetic operation of the source is one     *)
(* rounded operation of the model, applied in the order Python evaluates    *)
(* it.  Python's None is the empty tuple.  The exceptions of the source are  *)
(* modelled: ZeroDivisionError of /, OverflowError of math.exp and of **,   *)
(* ValueError of the guard.  The silent overflow of * and / to infinity is  *)
(* not: the arguments of the model keep every product far below it.         *)
(***************************************************************************)
EXTENDS Integers, Sequences, FiniteSets, TLC

(***************************************************************************)
(* Floating-point kernel                                                   *)
(***************************************************************************)
Half == 2^15
MantMin == 2^29
MantMax == 2^30

None == <<>>
Zero == <<0, 0>>

AbsI(n) == IF n < 0 THEN -n ELSE n
Sgn(n) == IF n < 0 THEN -1 ELSE 1

\* Shift a positive mantissa below 2^30 left until it has 30 bits.
RECURSIVE NormUp(_, _)
NormUp(n, e) ==
    IF n >= MantMin THEN <<n, e>>
    ELSE IF n < Half THEN NormUp(n * Half, e - 15)
    ELSE NormUp(n * 2, e - 1)

\* The float nearest to n * 2^e, for |n| < 2^31.
Norm(n, e) ==
    IF n = 0 THEN Zero
    ELSE LET a == AbsI(n)
             s == Sgn(n)
         IN IF a >= MantMax
            THEN LET h == (a \div 2) + (a % 2)
                 IN IF h >= MantMax THEN <<s * (h \div 2), e + 2>>
                    ELSE <<s * h, e + 1>>
            ELSE LET r == NormUp(a, e) IN <<s * r[1], r[2]>>

FromInt(n) == Norm(n, 0)
IsZero(a) == a[1] = 0
Neg(a) == <<-a[1], a[2]>>

\* a + b with b shifted to a's exponent (a has the larger exponent).
AddAligned(a, b) ==
    LET d == a[2] - b[2]
    IN IF d > 30 THEN a
       ELSE LET p == 2^d
                mb == AbsI(b[1])
                sh == (mb \div p) + (IF 2 * (mb % p) >= p THEN 1 ELSE 0)
            IN Norm(a[1] + Sgn(b[1]) * sh, a[2])

Add(a, b) ==
    IF IsZero(a) THEN b
    ELSE IF IsZero(b) THEN a
    ELSE IF a[2] >= b[2] THEN AddAligned(a, b) ELSE AddAligned(b, a)

Sub(a, b) == Add(a, Neg(b))

Mul(a, b) ==
    IF IsZero(a) \/ IsZero(b) THEN Zero
    ELSE LET x == AbsI(a[1])
             y == AbsI(b[1])
             xh == x \div Half
             xl == x % Half
             yh == y \div Half
             yl == y % Half
             mid == xh * yl + xl * yh + ((xl * yl) \div Half) + (Half \div 2)
             top == xh * yh + (mid \div Half)
         IN Norm(Sgn(a[1]) * Sgn(b[1]) * top, a[2] + b[2] + 30)

\* n more quotient bits of r / d (0 <= r < d < 2^30): s is <<r, q>>.
RECURSIVE LongDiv(_, _, _)
LongDiv(s, d, n) ==
    IF n = 0 THEN s[2]
    ELSE IF 2 * s[1] >= d THEN LongDiv(<<2 * s[1] - d, 2 * s[2] + 1>>, d, n - 1)
    ELSE LongDiv(<<2 * s[1], 2 * s[2]>>, d, n - 1)

\* a / b for b # 0.
Div(a, b) ==
    IF IsZero(a) THEN Zero
    ELSE LET x == AbsI(a[1])
             y == AbsI(b[1])
             q == LongDiv(<<x % y, x \div y>>, y, 29)
         IN Norm(Sgn(a[1]) * Sgn(b[1]) * q, a[2] - b[2] - 29)

IsNeg(a) == a[1] < 0
Lt(a, b) == IsNeg(Sub(a, b))
Max0(a) == IF IsNeg(a) THEN Zero ELSE a

\* The integer nearest to a, for |a| < 2^30.
Round(a) ==
    IF a[2] >= 0 THEN a[1] * 2^(a[2])
    ELSE IF -a[2] > 30 THEN 0
    ELSE LET p == 2^(-a[2])
             x == AbsI(a[1])
         IN Sgn(a[1]) * ((x \div p) + (IF 2 * (x % p) >= p THEN 1 ELSE 0))

\* A float beyond the largest double (about 2^1024): Python raises
\* OverflowError where math.exp or ** would produce it.
Overflows(a) == ~IsZero(a) /\ a[2] + 30 > 1024

One == FromInt(1)
Two == FromInt(2)
Ln2 == <<744261118, -30>>
HalfPi == <<843314857, -29>>
Scale(a, k) == IF IsZero(a) THEN Zero ELSE <<a[1], a[2] + k>>

\* math.sqrt for a >= 0: Newton's iteration from a power of two, until it
\* no longer moves.
RECURSIVE SqrtIter(_, _, _)
SqrtIter(a, s, n) ==
    LET t == Scale(Add(s, Div(a, s)), -1)
    IN IF n = 0 \/ t = s THEN s ELSE SqrtIter(a, t, n - 1)

Sqrt(a) ==
    IF IsZero(a) THEN Zero
    ELSE SqrtIter(a, <<MantMin, ((a[2] + 30) \div 2) - 29>>, 8)

\* sum + term + term * r / n + ... : the series is summed until a term no
\* longer changes the sum.
RECURSIVE ExpSeries(_, _, _, _)
ExpSeries(r, n, term, sum) ==
    LET next == Add(sum, term)
    IN IF next = sum THEN sum
       ELSE ExpSeries(r, n + 1, Mul(term, Div(r, FromInt(n))), next)

\* e^x as exp(x - k ln 2) * 2^k.  The result may lie beyond the largest
\* double: math.exp raises OverflowError then (see Overflows).
Exp(x) ==
    IF IsZero(x) THEN One
    ELSE IF x[2] + 30 > 11 THEN (IF IsNeg(x) THEN Zero ELSE <<MantMin, 2000>>)
    ELSE LET k == Round(Div(x, Ln2))
             r == Sub(x, Mul(FromInt(k), Ln2))
         IN Scale(ExpSeries(r, 2, r, One), k)

\* sum + term - term * r2 / (n (n + 1)) + ... : the cosine series from n = 1,
\* the sine series from n = 2, with r2 = r * r and |r| <= pi / 4.
RECURSIVE TrigSeries(_, _, _, _)
TrigSeries(r2, n, term, sum) ==
    LET next == Add(sum, term)
    IN IF next = sum THEN sum
       ELSE TrigSeries(r2, n + 2, Neg(Mul(term, Div(r2, FromInt(n * (n + 1))))), next)

\* The argument reduced by a multiple n of pi / 2, and n mod 4.
Reduce(t) ==
    LET n == Round(Div(t, HalfPi))
        r == Sub(t, Mul(FromInt(n), HalfPi))
    IN [r |-> r, q |-> n % 4]

CosR(r) ==
    IF IsZero(r) THEN One
    ELSE LET r2 == Mul(r, r) IN TrigSeries(r2, 3, Neg(Scale(r2, -1)), One)

SinR(r) ==
    IF IsZero(r) THEN Zero
    ELSE LET r2 == Mul(r, r)
         IN TrigSeries(r2, 4, Neg(Mul(r, Div(r2, FromInt(6)))), r)

Cos(t) ==
    LET p == Reduce(t)
    IN CASE p.q = 0 -> CosR(p.r)
         [] p.q = 1 -> Neg(SinR(p.r))
         [] p.q = 2 -> Neg(CosR(p.r))
         [] OTHER -> SinR(p.r)

Sin(t) ==
    LET p == Reduce(t)
    IN CASE p.q = 0 -> SinR(p.r)
         [] p.q = 1 -> CosR(p.r)
         [] p.q = 2 -> Neg(SinR(p.r))
         [] OTHER -> Neg(CosR(p.r))

(***************************************************************************)
(* The filter: RecursiveConvolution                                        *)
(***************************************************************************)
VARIABLES
    self,       \* the filter object: a record of its fields
    call,       \* the most recent call: operation, arguments, outcome, result
    prevCall,   \* the call before it
    pre,        \* the filter's fields as the most recent call found them
    updated,    \* an update_parameters call has been made
    ready,      \* an update_parameters call has completed
    rets,       \* the outputs of the last two calculate_output calls that returned
    zeroOnly,   \* every calculate_output call so far was given x = 0
    calls,      \* the number of calls made
    drv,        \* the driver program cart.py: its position and its locals
    thr         \* two threads calling the filter: their positions and locals

vars == <<self, call, prevCall, pre, updated, ready, rets, zeroOnly, calls,
          drv, thr>>

\* __init__
InitFilter ==
    [g0 |-> None, g1 |-> None, g2 |-> None, alpha |-> None, omega |-> None,
     prev_y1 |-> Zero, prev_y2 |-> Zero, prev_x |-> Zero, dt |-> None]

\* The two ways a method ends: an exception, or a return.
Raise(s, e) == [self |-> s, outcome |-> e, ret |-> None]
Return(s, v) == [self |-> s, outcome |-> "ok", ret |-> v]

\* a ** 2
Pow2(a) == Mul(a, a)

\* Mutant of G1Formula: the sine term subtracted instead of added.
G1FormulaMinus(alpha, omega, b, m, k, dt, e) ==
    Sub(Mul(Mul(Div(b, m), e), Cos(Mul(omega, dt))),
        Mul(Mul(Div(Sub(k, Div(Pow2(b), Mul(Two, m))), Mul(m, omega)), e),
            Sin(Mul(omega, dt))))

\* The expression assigned to self.g1, with e = math.exp(-self.alpha * dt).
G1Formula(alpha, omega, b, m, k, dt, e) ==
    Add(Mul(Mul(Div(b, m), e), Cos(Mul(omega, dt))),
        Mul(Mul(Div(Sub(k, Div(Pow2(b), Mul(Two, m))), Mul(m, omega)), e),
            Sin(Mul(omega, dt))))

\* Mutant of G1: the cosine and sine taken at the stored self.dt, not at the
\* argument dt.
G1StaleDt(s, b, m, k, dt, e) ==
    G1Formula(s.alpha, s.omega, b, m, k, IF s.dt = None THEN dt ELSE s.dt, e)

G1(s, b, m, k, dt, e) == G1Formula(s.alpha, s.omega, b, m, k, dt, e)

SetAlpha(s, b, m) == [s EXCEPT !.alpha = Div(b, Mul(Two, m))]
SetOmega(s, m, k) ==
    [s EXCEPT !.omega = Sqrt(Max0(Sub(Div(k, m), Pow2(s.alpha))))]
SetG0(s, b, m) == [s EXCEPT !.g0 = Div(b, m)]
SetG1(s, b, m, k, dt, e) == [s EXCEPT !.g1 = G1(s, b, m, k, dt, e)]

\* Mutant of SetDt: a parameter update that also clears the history.
SetDtAndReset(s, dt) ==
    [s EXCEPT !.dt = dt, !.prev_y1 = Zero, !.prev_y2 = Zero, !.prev_x = Zero]

SetDt(s, dt) == [s EXCEPT !.dt = dt]

\* Lines 36-41: math.exp of the left term is evaluated first, then the
\* division by m * omega.
Line36(s, b, m, k, dt, e) ==
    IF Overflows(e) THEN Raise(s, "OverflowError")
    ELSE IF IsZero(Mul(m, s.omega)) THEN Raise(s, "ZeroDivisionError")
    ELSE Return(SetDt(SetG1(s, b, m, k, dt, e), dt), None)

\* Lines 31-33.
Line31(s, b, m, k, dt) ==
    IF Overflows(Pow2(s.alpha)) THEN Raise(s, "OverflowError")
    ELSE Line36(SetG0(SetOmega(s, m, k), b, m), b, m, k, dt,
                Exp(Mul(Neg(s.alpha), dt)))

\* update_parameters: the assignments in order, each exception leaving the
\* assignments made before it.
update_parameters(s, b, m, k, dt) ==
    IF IsZero(Mul(Two, m)) THEN Raise(s, "ZeroDivisionError")
    ELSE Line31(SetAlpha(s, b, m), b, m, k, dt)

\* Mutant of Recurrence: x added to dt * g0 instead of multiplied by it.
RecurrencePlusX(s, x, e1, c, e2) ==
    Add(Add(Sub(Mul(Mul(Mul(Two, e1), c), s.prev_y1),
                Mul(e2, s.prev_y2)),
            Add(Mul(s.dt, s.g0), x)),
        Mul(Mul(s.dt, Sub(s.g1, Mul(Mul(Mul(Two, e1), s.g0), c))), s.prev_x))

\* The recursive calculation of y, from the three coefficients of the call.
Recurrence(s, x, e1, c, e2) ==
    Add(Add(Sub(Mul(Mul(Mul(Two, e1), c), s.prev_y1),
                Mul(e2, s.prev_y2)),
            Mul(Mul(s.dt, s.g0), x)),
        Mul(Mul(s.dt, Sub(s.g1, Mul(Mul(Mul(Two, e1), s.g0), c))), s.prev_x))

\* Mutant of ShiftHistory: y stored in g1 instead of prev_y1.
ShiftHistoryIntoG1(s, x, y) ==
    [s EXCEPT !.prev_y2 = s.prev_y1, !.g1 = y, !.prev_x = x]

\* Mutant of ShiftHistory: prev_y1 assigned before prev_y2 copies it.
ShiftHistoryLate(s, x, y) ==
    [s EXCEPT !.prev_y1 = y, !.prev_y2 = y, !.prev_x = x]

\* The update of the state variables, in the order of the assignments.
ShiftHistory(s, x, y) ==
    [s EXCEPT !.prev_y2 = s.prev_y1, !.prev_y1 = y, !.prev_x = x]

\* Mutant of NotInitializedError: an uninitialized filter answers 0.
NotInitializedSilent(s, x) == Return(ShiftHistory(s, x, Zero), Zero)

\* The guard of calculate_output and what it raises.
NotInitialized(s) == s.g1 = None \/ s.dt = None
NotInitializedError(s, x) == Raise(s, "ValueError")

ReturnOutput(s, x, y) == Return(ShiftHistory(s, x, y), y)

Line59(s, x, e1, e2) ==
    IF Overflows(e2) THEN Raise(s, "OverflowError")
    ELSE ReturnOutput(s, x, Recurrence(s, x, e1, Cos(Mul(s.omega, s.dt)), e2))

Line57(s, x, e1) ==
    IF Overflows(e1) THEN Raise(s, "OverflowError")
    ELSE Line59(s, x, e1, Exp(Mul(Mul(FromInt(-2), s.alpha), s.dt)))

calculate_output(s, x) ==
    IF NotInitialized(s) THEN NotInitializedError(s, x)
    ELSE Line57(s, x, Exp(Mul(Neg(s.alpha), s.dt)))

(***************************************************************************)
(* Callers                                                                 *)
(***************************************************************************)
MaxCalls == 4

\* A caller's literal n / d.
Ratio(q) == Div(FromInt(q[1]), FromInt(q[2]))

\* The arguments conv.update_parameters(b=185, m=500, k=1500, dt=1/60).
DriverParams == <<185, 500, 1500, <<1, 60>>>>

\* Argument tuples <<b, m, k, dt>> callers pass: the driver's, a critically
\* damped system, a zero mass, a zero sampling period, a negative stiffness,
\* and a strongly negative damping.
ParamChoices ==
    { DriverParams,
      <<2, 1, 1, <<1, 1>>>>,
      <<1, 0, 1, <<1, 1>>>>,
      <<1, 1, 1, <<0, 1>>>>,
      <<1, 1, -1, <<1, 1>>>>,
      <<-800, 1, 1000000, <<1, 1>>>> }

InputChoices == {0, 50}

\* The driver's constants: the carts' configured x positions and the speed
\* an arrow key gives the outer cart.
OuterCartX == 400
InnerCartX == 400
cart_speed == 100

\* The frame time the driver assumes when it integrates the velocity.
FrameTime == Ratio(<<1, 60>>)

\* cart.py as its module-level code has built the carts and is about to
\* create the filter.
DriverStart ==
    [pc |-> "setup", running |-> FALSE,
     velocity |-> Zero, pos |-> FromInt(OuterCartX), displacement |-> Zero,
     inner |-> FromInt(InnerCartX), frames |-> 0]

\* No threads have been started.
NoThreads ==
    [phase |-> "idle", sync |-> FALSE, lock |-> 0, start |-> InitFilter,
     t |-> <<>>]

Init ==
    /\ drv = DriverStart
    /\ thr = NoThreads
    /\ self = InitFilter
    /\ call = [op |-> "__init__", args |-> <<>>, outcome |-> "ok", ret |-> None]
    /\ prevCall = call
    /\ pre = InitFilter
    /\ updated = FALSE
    /\ ready = FALSE
    /\ rets = <<>>
    /\ zeroOnly = TRUE
    /\ calls = 0

\* One call conv.update_parameters(b, m, k, dt).
DoUpdate(p) ==
    \E r \in {update_parameters(self, FromInt(p[1]), FromInt(p[2]),
                               FromInt(p[3]), Ratio(p[4]))} :
       /\ self' = r.self
       /\ call' = [op |-> "update_parameters", args |-> p,
                   outcome |-> r.outcome, ret |-> r.ret]
       /\ prevCall' = call
       /\ pre' = self
       /\ updated' = TRUE
       /\ ready' = (ready \/ r.outcome = "ok")
       /\ calls' = calls + 1
       /\ UNCHANGED <<rets, zeroOnly>>

\* One call conv.calculate_output(x).
DoCalculate(x) ==
    \E r \in {calculate_output(self, FromInt(x))} :
       /\ self' = r.self
       /\ call' = [op |-> "calculate_output", args |-> <<x>>,
                   outcome |-> r.outcome, ret |-> r.ret]
       /\ prevCall' = call
       /\ pre' = self
       /\ rets' = IF r.outcome # "ok" THEN rets
                  ELSE IF rets = <<>> THEN <<r.ret>>
                  ELSE <<rets[Len(rets)], r.ret>>
       /\ zeroOnly' = (zeroOnly /\ x = 0)
       /\ calls' = calls + 1
       /\ UNCHANGED <<updated, ready>>

UpdateParameters ==
    /\ calls < MaxCalls
    /\ \E p \in ParamChoices : DoUpdate(p)
    /\ UNCHANGED <<drv, thr>>

CalculateOutput ==
    /\ calls < MaxCalls
    /\ \E x \in InputChoices : DoCalculate(x)
    /\ UNCHANGED <<drv, thr>>

Next == UpdateParameters \/ CalculateOutput

Spec == Init /\ [][Next]_vars

(***************************************************************************)
(* The step-response scenario: the driver's parameters, then a constant    *)
(* input of 50.0 sample after sample (as the __main__ block of              *)
(* RecursiveConvolution.py feeds a unit step).                              *)
(***************************************************************************)
StepSamples == 600

StepSetup == calls = 0 /\ DoUpdate(DriverParams) /\ UNCHANGED <<drv, thr>>

StepFeed ==
    /\ calls >= 1
    /\ calls <= StepSamples
    /\ DoCalculate(50)
    /\ UNCHANGED <<drv, thr>>

StepNext == StepSetup \/ StepFeed

SpecStep == Init /\ [][StepNext]_vars

(***************************************************************************)
(* The driver program cart.py: it creates one filter, sets its parameters  *)
(* once, and then runs the main loop, one iteration per rendered frame.    *)
(* An exception that leaves a call ends the program ("crashed").           *)
(***************************************************************************)
MaxFrames == 5

\* Mutant of DriverSetup: the loop is entered without update_parameters.
DriverSetupNoUpdate ==
    /\ drv.pc = "setup"
    /\ drv' = [drv EXCEPT !.pc = "loop", !.running = TRUE]
    /\ UNCHANGED <<self, call, prevCall, pre, updated, ready, rets, zeroOnly,
                   calls, thr>>

\* conv = RecursiveConvolution(); conv.update_parameters(b=185, m=500,
\* k=1500, dt=1/60); velocity and displacement zero; running = True.
DriverSetup ==
    /\ drv.pc = "setup"
    /\ DoUpdate(DriverParams)
    /\ drv' = IF call'.outcome = "ok"
                 THEN [drv EXCEPT !.pc = "loop", !.running = TRUE]
                 ELSE [drv EXCEPT !.pc = "crashed"]
    /\ UNCHANGED thr

\* conv.calculate_output(x) with the float x the driver computed.
DoCalculateAt(x) ==
    \E r \in {calculate_output(self, x)} :
       /\ self' = r.self
       /\ call' = [op |-> "calculate_output", args |-> <<x>>,
                   outcome |-> r.outcome, ret |-> r.ret]
       /\ prevCall' = call
       /\ pre' = self
       /\ rets' = IF r.outcome # "ok" THEN rets
                  ELSE IF rets = <<>> THEN <<r.ret>>
                  ELSE <<rets[Len(rets)], r.ret>>
       /\ zeroOnly' = (zeroOnly /\ IsZero(x))
       /\ calls' = calls + 1
       /\ UNCHANGED <<updated, ready>>

\* The velocity the pressed keys select: LEFT wins over RIGHT.
KeyVelocity(left, right) ==
    IF left THEN Neg(FromInt(cart_speed))
    ELSE IF right THEN FromInt(cart_speed)
    ELSE Zero

\* The rest of an iteration once the new position and displacement are
\* known: the filter call, the inner cart's position, the frame drawn.
FrameBody(quit, velocity, pos, displacement) ==
    /\ DoCalculateAt(displacement)
    /\ drv' = IF call'.outcome = "ok"
                 THEN [pc |-> "loop", running |-> drv.running /\ ~quit,
                       velocity |-> velocity, pos |-> pos,
                       displacement |-> displacement,
                       inner |-> Add(FromInt(InnerCartX), call'.ret),
                       frames |-> drv.frames + 1]
                 ELSE [drv EXCEPT !.pc = "crashed",
                                  !.running = drv.running /\ ~quit,
                                  !.velocity = velocity, !.pos = pos,
                                  !.displacement = displacement]
    /\ UNCHANGED thr

\* One iteration of the main loop: a QUIT event clears running but the
\* iteration goes on; the keys set the velocity; the outer cart moves by
\* velocity * (1/60); the filter is called with its displacement.
DriverFrame ==
    /\ drv.pc = "loop"
    /\ drv.running
    /\ drv.frames < MaxFrames
    /\ \E quit, left, right \in BOOLEAN :
          \E pos \in {Add(drv.pos, Mul(KeyVelocity(left, right), FrameTime))} :
             FrameBody(quit, KeyVelocity(left, right), pos,
                       Sub(pos, FromInt(OuterCartX)))

\* running is False when the loop tests it: the loop ends, pygame.quit().
DriverQuit ==
    /\ drv.pc = "loop"
    /\ ~drv.running
    /\ drv' = [drv EXCEPT !.pc = "done"]
    /\ UNCHANGED <<self, call, prevCall, pre, updated, ready, rets, zeroOnly,
                   calls, thr>>

DriverNext == DriverSetup \/ DriverFrame \/ DriverQuit

SpecDriver == Init /\ [][DriverNext]_vars

(***************************************************************************)
(* Two threads calling one Ready filter.  A thread's step is one load or   *)
(* store of a field of the filter (the interpreter switches threads only   *)
(* between bytecodes, and one bytecode loads or stores one attribute); the *)
(* arithmetic on loaded values is local to the thread and rides on the     *)
(* load that completes its operands.  update_parameters loads only alpha   *)
(* and omega, which no calculate_output call writes, so in the scenarios   *)
(* below its loads return what it stored itself and are taken together     *)
(* with the store that consumes them.                                      *)
(***************************************************************************)

\* Calls made one after the other before the threads start: the driver's
\* update_parameters, then two samples of 50.
WarmCalls == 3

\* The arguments of the __main__ block: b, m, k, dt = 1, 1, 10, 0.001.
MainParams == <<1, 1, 10, <<1, 1000>>>>

\* The local values of a calculate_output call.
LocalNames ==
    {"chk", "a", "d", "o", "e1", "c", "e2", "y1", "y2", "dt65", "g065",
     "dt66", "g1", "g066", "px", "y", "t"}

NoLocals == [n \in LocalNames |-> None]

\* The attribute loads of calculate_output in evaluation order, each with
\* the local that receives it: the guard (g1, dt), the three coefficients
\* (alpha, dt; omega, dt; alpha, dt), the recurrence (prev_y1, prev_y2, dt,
\* g0, dt, g1, g0, prev_x) and the right-hand side of prev_y2 = prev_y1.
CalcLoads ==
    << <<"g1", "chk">>, <<"dt", "chk">>,
       <<"alpha", "a">>, <<"dt", "d">>,
       <<"omega", "o">>, <<"dt", "d">>,
       <<"alpha", "a">>, <<"dt", "d">>,
       <<"prev_y1", "y1">>, <<"prev_y2", "y2">>,
       <<"dt", "dt65">>, <<"g0", "g065">>,
       <<"dt", "dt66">>, <<"g1", "g1">>, <<"g0", "g066">>,
       <<"prev_x", "px">>,
       <<"prev_y1", "t">> >>

\* Mutant of CalcStores: prev_y2 receives the new output, not the old prev_y1.
CalcStoresLate == << <<"prev_y2", "y">>, <<"prev_y1", "y">>, <<"prev_x", "x">> >>

\* The attribute stores of calculate_output, each with the local stored.
CalcStores == << <<"prev_y2", "t">>, <<"prev_y1", "y">>, <<"prev_x", "x">> >>

\* A thread about to make a call.
Thread(op, args) ==
    [op |-> op, args |-> args, pc |-> 0, loc |-> NoLocals,
     outcome |-> "running", ret |-> None]

\* How a step of a thread ends: it goes on, it raises, it returns.
GoOn(s, me, loc) == [self |-> s, me |-> [me EXCEPT !.pc = me.pc + 1, !.loc = loc]]
Raised(s, me, e) ==
    [self |-> s, me |-> [me EXCEPT !.outcome = e, !.loc = NoLocals]]
Returned(s, me, v) ==
    [self |-> s,
     me |-> [me EXCEPT !.outcome = "ok", !.ret = v, !.loc = NoLocals]]

\* The recursive calculation of y from the values the thread has loaded.
RecurrenceOfLoads(l, x) ==
    Add(Add(Sub(Mul(Mul(Mul(Two, l.e1), l.c), l.y1),
                Mul(l.e2, l.y2)),
            Mul(Mul(l.dt65, l.g065), x)),
        Mul(Mul(l.dt66, Sub(l.g1, Mul(Mul(Mul(Two, l.e1), l.g066), l.c))), l.px))

\* What calculate_output does with a value once it is loaded: the guard on
\* the first two loads, math.exp and math.cos when alpha or omega and dt are
\* there, y when prev_x is.
Loaded(s, me, l, e) ==
    CASE me.pc \in {1, 2} ->
            IF l.chk = None THEN Raised(s, me, "ValueError")
            ELSE GoOn(s, me, NoLocals)
      [] me.pc \in {4, 8} ->
            IF Overflows(e) THEN Raised(s, me, "OverflowError")
            ELSE GoOn(s, me, [l EXCEPT ![IF me.pc = 4 THEN "e1" ELSE "e2"] = e,
                                       !.a = None, !.d = None])
      [] me.pc = 6 ->
            GoOn(s, me, [l EXCEPT !.c = Cos(Mul(l.o, l.d)),
                                  !.o = None, !.d = None])
      [] me.pc = 16 ->
            GoOn(s, me, [NoLocals EXCEPT !.y = RecurrenceOfLoads(l, me.args[1])])
      [] OTHER -> GoOn(s, me, l)

\* math.exp(-self.alpha * self.dt) and math.exp(-2 * self.alpha * self.dt)
\* of the loaded alpha and dt.
LoadedExp(pc, l) ==
    IF pc = 4 THEN Exp(Mul(Neg(l.a), l.d))
    ELSE IF pc = 8 THEN Exp(Mul(Mul(FromInt(-2), l.a), l.d))
    ELSE Zero

\* One step of a calculate_output call: a load, a store, or the return.
CalcStep(s, me) ==
    IF me.pc <= Len(CalcLoads)
    THEN LET l == [me.loc EXCEPT ![CalcLoads[me.pc][2]] = s[CalcLoads[me.pc][1]]]
         IN  Loaded(s, me, l, LoadedExp(me.pc, l))
    ELSE IF me.pc <= Len(CalcLoads) + Len(CalcStores)
    THEN LET st == CalcStores[me.pc - Len(CalcLoads)]
             v == IF st[2] = "x" THEN me.args[1] ELSE me.loc[st[2]]
         IN  GoOn([s EXCEPT ![st[1]] = v], me, me.loc)
    ELSE Returned(s, me, me.loc.y)

\* One step of an update_parameters call: the store of alpha, omega, g0,
\* g1 or dt with the exceptions its right-hand side can raise, or the return.
UpdateStep(s, me, b, m, k, dt) ==
    CASE me.pc = 1 ->
            IF IsZero(Mul(Two, m)) THEN Raised(s, me, "ZeroDivisionError")
            ELSE GoOn(SetAlpha(s, b, m), me, me.loc)
      [] me.pc = 2 ->
            IF Overflows(Pow2(s.alpha)) THEN Raised(s, me, "OverflowError")
            ELSE GoOn(SetOmega(s, m, k), me, me.loc)
      [] me.pc = 3 -> GoOn(SetG0(s, b, m), me, me.loc)
      [] me.pc = 4 ->
            LET e == Exp(Mul(Neg(s.alpha), dt))
            IN  IF Overflows(e) THEN Raised(s, me, "OverflowError")
                ELSE IF IsZero(Mul(m, s.omega))
                THEN Raised(s, me, "ZeroDivisionError")
                ELSE GoOn(SetG1(s, b, m, k, dt, e), me, me.loc)
      [] me.pc = 5 -> GoOn(SetDt(s, dt), me, me.loc)
      [] OTHER -> Returned(s, me, None)

\* The next step of a thread that has entered its call.
Step(s, me) ==
    IF me.op = "calculate_output" THEN CalcStep(s, me)
    ELSE UpdateStep(s, me, me.args[1], me.args[2], me.args[3], me.args[4])

\* The calls before the threads start.
ThreadsReady ==
    /\ calls = 0
    /\ DoUpdate(DriverParams)
    /\ UNCHANGED <<drv, thr>>

ThreadsWarm ==
    /\ calls >= 1
    /\ calls < WarmCalls
    /\ DoCalculate(50)
    /\ UNCHANGED <<drv, thr>>

\* Two threads are created on the Ready filter: one update_parameters and
\* one calculate_output call, or two calculate_output calls; the callers
\* either wrap each call in one exclusive lock (sync) or do not.
ThreadsStart ==
    /\ calls = WarmCalls
    /\ thr.phase = "idle"
    /\ \E sync \in BOOLEAN, both \in BOOLEAN, x1, x2 \in InputChoices :
          thr' = [phase |-> "run", sync |-> sync, lock |-> 0, start |-> self,
                  t |-> << IF both
                           THEN Thread("calculate_output", <<FromInt(x1)>>)
                           ELSE Thread("update_parameters",
                                       <<FromInt(MainParams[1]),
                                         FromInt(MainParams[2]),
                                         FromInt(MainParams[3]),
                                         Ratio(MainParams[4])>>),
                           Thread("calculate_output", <<FromInt(x2)>>) >>]
    /\ UNCHANGED <<self, call, prevCall, pre, updated, ready, rets, zeroOnly,
                   calls, drv>>

\* Thread i enters its call; under sync it first acquires the lock.
ThreadEnter ==
    /\ thr.phase = "run"
    /\ \E i \in 1..2 :
          /\ thr.t[i].outcome = "running"
          /\ thr.t[i].pc = 0
          /\ thr.sync => thr.lock = 0
          /\ thr' = [thr EXCEPT !.t[i].pc = 1,
                                !.lock = IF thr.sync THEN i ELSE 0]
    /\ UNCHANGED <<self, call, prevCall, pre, updated, ready, rets, zeroOnly,
                   calls, drv>>

\* Thread i takes its next step; under sync the lock is released as the
\* call returns or raises.
ThreadStep ==
    /\ thr.phase = "run"
    /\ \E i \in 1..2 :
          /\ thr.t[i].outcome = "running"
          /\ thr.t[i].pc > 0
          /\ \E r \in {Step(self, thr.t[i])} :
                /\ self' = r.self
                /\ thr' = [thr EXCEPT !.t[i] = r.me,
                                      !.lock = IF r.me.outcome = "running"
                                               THEN thr.lock ELSE 0]
    /\ UNCHANGED <<call, prevCall, pre, updated, ready, rets, zeroOnly,
                   calls, drv>>

ThreadsNext ==
    ThreadsReady \/ ThreadsWarm \/ ThreadsStart \/ ThreadEnter \/ ThreadStep

SpecThreads == Init /\ [][ThreadsNext]_vars

(***************************************************************************)
(* Views of the state used by the properties                               *)
(***************************************************************************)
Hist(s) == <<s.prev_y1, s.prev_y2, s.prev_x>>
Coeffs(s) == <<s.alpha, s.omega, s.g0, s.g1, s.dt>>
ZeroHist == <<Zero, Zero, Zero>>
Le(a, b) == ~Lt(b, a)

\* Both threads have left their calls.
ThreadsDone ==
    /\ thr.phase = "run"
    /\ \A i \in 1..2 : thr.t[i].outcome # "running"

\* The call of thread record t made on filter s as one uninterrupted call.
Whole(s, t) ==
    IF t.op = "calculate_output" THEN calculate_output(s, t.args[1])
    ELSE update_parameters(s, t.args[1], t.args[2], t.args[3], t.args[4])

\* What the threads leave behind: the filter, and each call's outcome and
\* returned value.
Outcome(s, r1, r2) ==
    [self |-> s, res |-> << <<r1.outcome, r1.ret>>, <<r2.outcome, r2.ret>> >>]

Threaded == Outcome(self, thr.t[1], thr.t[2])

\* The two serial orders of the threads' calls from the filter they found.
Serial12(r1) ==
    \E r2 \in {Whole(r1.self, thr.t[2])} : Threaded = Outcome(r2.self, r1, r2)
Serial21(r2) ==
    \E r1 \in {Whole(r2.self, thr.t[1])} : Threaded = Outcome(r1.self, r1, r2)
Serializable ==
    \/ Serial12(Whole(thr.start, thr.t[1]))
    \/ Serial21(Whole(thr.start, thr.t[2]))

\* The values a serial order makes thread 2's call return.
SerialRets2 ==
    { Whole(thr.start, thr.t[2]).ret,
      Whole(Whole(thr.start, thr.t[1]).self, thr.t[2]).ret }

Updated == call.op = "update_parameters"
Calculated == call.op = "calculate_output"
Ok == call.outcome = "ok"

(***************************************************************************)
(* Properties                                                              *)
(***************************************************************************)

\* C1: on a freshly constructed filter, a calculate_output call made before
\* any update_parameters call raises the "not initialized" ValueError, returns
\* no value, and leaves every field of the filter as it was.
C1_UninitializedRejected ==
    (Calculated /\ ~updated) =>
        /\ call.outcome = "ValueError"
        /\ call.ret = None
        /\ self = pre
        /\ self = InitFilter

\* C1 witness: calculate_output(50) was called on the fresh filter and raised.
C1_Witness ==
    /\ Calculated /\ ~updated
    /\ call.args = <<50>>
    /\ call.outcome = "ValueError"

\* C2: update_parameters is all-or-nothing: a call that raises leaves every
\* field of the filter with the value it had before the call.
C2_AllOrNothing == (Updated /\ ~Ok) => self = pre

\* C3: update_parameters raises for every call with m = 0 and for every call
\* with dt <= 0; such a call never completes and stores the given dt.
C3_InvalidRejected ==
    (Updated /\ (call.args[2] = 0 \/ call.args[4][1] <= 0)) => ~Ok

\* C4: every update_parameters call with m # 0 and dt > 0 succeeds and stores
\* a g1, also when omega is clamped to 0 or the stiffness or damping is
\* negative.
C4_ValidAccepted ==
    (Updated /\ call.args[2] # 0 /\ call.args[4][1] > 0) =>
        (Ok /\ self.g1 # None)

\* C5: a calculate_output call succeeds if and only if an earlier
\* update_parameters call on the instance succeeded.
C5_SucceedsIffReady == Calculated => (Ok <=> ready)

\* The part of C5 that the guard of calculate_output does guarantee: the call
\* raises the "not initialized" ValueError exactly when no update_parameters
\* call has completed yet.
C5_UninitializedIffNotReady ==
    Calculated => (call.outcome = "ValueError" <=> ~ready)

\* C6: a successful update_parameters call overwrites alpha, omega, g0, g1 and
\* dt (dt with the argument) and leaves prev_y1, prev_y2 and prev_x unchanged.
C6_UpdateKeepsHistory ==
    (Updated /\ Ok) =>
        /\ Hist(self) = Hist(pre)
        /\ self.g2 = pre.g2
        /\ \A i \in 1..5 : Coeffs(self)[i] # None
        /\ self.dt = Ratio(call.args[4])

\* C6 witness: parameters were changed between two calculate_output calls: a
\* successful update with new coefficients on a filter whose history the
\* preceding calculate_output call left non-zero.
C6_Witness ==
    /\ Updated /\ Ok
    /\ prevCall.op = "calculate_output" /\ prevCall.outcome = "ok"
    /\ pre.prev_y1 # Zero /\ pre.prev_x # Zero
    /\ Coeffs(self) # Coeffs(pre)

\* C7: every successful calculate_output(x) call shifts the history once:
\* prev_x is x, prev_y1 is the returned y, prev_y2 is the prev_y1 of before the
\* call; so prev_y1 and prev_y2 are always the outputs of the last two
\* successful calls, whatever update_parameters calls came between them.
C7_HistoryShift ==
    /\ (Calculated /\ Ok) =>
           /\ self.prev_x = FromInt(call.args[1])
           /\ self.prev_y1 = call.ret
           /\ self.prev_y2 = pre.prev_y1
    /\ Len(rets) >= 1 => self.prev_y1 = rets[Len(rets)]
    /\ Len(rets) = 2 => self.prev_y2 = rets[1]

\* C7 witness: two successful calculate_output calls with distinct non-zero
\* outputs and a successful update_parameters call between them.
C7_Witness ==
    /\ Calculated /\ Ok
    /\ prevCall.op = "update_parameters" /\ prevCall.outcome = "ok"
    /\ Len(rets) = 2 /\ rets[1] # Zero /\ rets[1] # rets[2]

C9_UpdateIdempotent ==
    /\ (/\ Updated /\ Ok
        /\ prevCall.op = "update_parameters" /\ prevCall.outcome = "ok"
        /\ prevCall.args = call.args) =>
           (Coeffs(self) = Coeffs(pre) /\ Hist(self) = Hist(pre))
    /\ (Updated /\ Ok) =>
           Coeffs(self) =
               Coeffs(update_parameters(InitFilter, FromInt(call.args[1]),
                                        FromInt(call.args[2]), FromInt(call.args[3]),
                                        Ratio(call.args[4])).self)

\* C9 witness: the same successful update twice in a row, on a filter with a
\* non-zero history and other coefficients before the first of the two.
C9_Witness ==
    /\ Updated /\ Ok
    /\ prevCall.op = "update_parameters" /\ prevCall.outcome = "ok"
    /\ prevCall.args = call.args
    /\ self.prev_y1 # Zero

\* C10, as claimed: in the step-response scenario every call returns, the
\* first output is above 0, no output is above 60 (20% over the final value
\* 50), and output 600 is between 49.5 and 50.5.
C10_StepResponseAsClaimed ==
    Calculated =>
        /\ Ok
        /\ (calls - 1 = 1 => Lt(Zero, call.ret))
        /\ Le(call.ret, FromInt(60))
        /\ (calls - 1 = 600 =>
               (Le(Ratio(<<99, 2>>), call.ret) /\ Le(call.ret, Ratio(<<101, 2>>))))

\* C10, amended: in the step-response scenario every call returns, the output
\* rises from 0 strictly over the first 102 samples, no output is above 87.5
\* (75% over the final value 50), and output 600 is between 49.5 and 50.5.
C10_StepResponse ==
    Calculated =>
        /\ Ok
        /\ (calls - 1 <= 102 => Lt(pre.prev_y1, call.ret))
        /\ Le(call.ret, Ratio(<<175, 2>>))
        /\ (calls - 1 = 600 =>
               (Le(Ratio(<<99, 2>>), call.ret) /\ Le(call.ret, Ratio(<<101, 2>>))))

\* C10 witness: output 600 has been returned for the input 50, just below 50.
C10_Witness ==
    /\ Calculated /\ Ok
    /\ calls - 1 = 600
    /\ Lt(call.ret, FromInt(50))
    /\ self.prev_x = FromInt(50)

\* C11: calculate_output changes nothing but the three history values:
\* whether the call returns or raises, alpha, omega, g0, g1 and dt (and g2) are
\* after the call what they were before it.
C11_CalculateKeepsParameters ==
    Calculated => (Coeffs(self) = Coeffs(pre) /\ self.g2 = pre.g2)

\* C11 witness: a returning calculate_output call that changed all three
\* history values of a filter whose five parameters are set.
C11_Witness ==
    /\ Calculated /\ Ok
    /\ self.prev_y1 # pre.prev_y1
    /\ self.prev_y2 # pre.prev_y2
    /\ self.prev_x # pre.prev_x
    /\ \A i \in 1..5 : Coeffs(self)[i] # None

\* C12: in every run of cart.py the one update_parameters call (185, 500,
\* 1500, 1/60) has completed before the first loop iteration, every iteration
\* makes exactly one calculate_output call, no call raises (in particular not
\* the uninitialized error), each frame shifts the history exactly once, and
\* the stored dt is the 1/60 frame time the position integration uses.
C12_DriverCadence ==
    /\ drv.pc = "setup" => calls = 0
    /\ drv.pc # "crashed"
    /\ drv.pc \in {"loop", "done"} =>
          /\ ready
          /\ calls = drv.frames + 1
          /\ Ok
          /\ self.dt = FrameTime
          /\ drv.frames = 0 =>
                /\ Updated
                /\ call.args = DriverParams
                /\ Hist(self) = ZeroHist
          /\ drv.frames > 0 =>
                /\ Calculated
                /\ call.args = <<drv.displacement>>
                /\ Coeffs(pre)[4] # None
                /\ Hist(self) = <<call.ret, pre.prev_y1, drv.displacement>>
                /\ drv.inner = Add(FromInt(InnerCartX), call.ret)
          /\ drv.frames > 1 => prevCall.op = "calculate_output"
          /\ drv.frames = 1 => prevCall.op = "update_parameters"

\* C12 witness: the driver has left its loop after at least three frames in
\* which the outer cart was moved, so the filter's history is non-zero.
C12_Witness ==
    /\ drv.pc = "done"
    /\ drv.frames >= 3
    /\ ~IsZero(self.prev_y2)
    /\ ~IsZero(drv.displacement)

\* C13: when every call is made under one exclusive lock, what two threads
\* leave behind (the filter's fields and each call's result) is what one of
\* the two serial orders of their calls leaves behind, and no thread is
\* inside a call while the other one is; without the lock (see the
\* witnesses) an update_parameters call interleaved with a calculate_output
\* call yields an output no serial order yields, and two interleaved
\* calculate_output calls lose a history shift.
C13_LockedIsSerial ==
    /\ (thr.phase = "run" /\ thr.sync) =>
          \E i \in 1..2 : thr.t[i].pc = 0 \/ thr.t[i].outcome # "running"
    /\ (ThreadsDone /\ thr.sync) => Serializable

\* C13 witness: without the lock, update_parameters and calculate_output
\* have both returned, and calculate_output loaded some of alpha, omega,
\* g0, g1 and dt before they were stored and some after: its output is that
\* of neither serial order, and so is what the threads leave behind.
C13_Witness ==
    /\ ThreadsDone
    /\ ~thr.sync
    /\ thr.t[1].op = "update_parameters"
    /\ \A i \in 1..2 : thr.t[i].outcome = "ok"
    /\ thr.t[2].ret \notin SerialRets2
    /\ ~Serializable

\* C13, second case: without the lock two calculate_output calls have both
\* returned but the history moved one place only: prev_y2 still holds the
\* prev_y1 the threads found, not the output of the earlier call.
C13_LostShift ==
    /\ ThreadsDone
    /\ ~thr.sync
    /\ \A i \in 1..2 : thr.t[i].op = "calculate_output" /\ thr.t[i].outcome = "ok"
    /\ self.prev_y2 = thr.start.prev_y1
    /\ self.prev_y2 \notin {thr.t[1].ret, thr.t[2].ret}
    /\ ~Serializable

\* C13, the locked runs are there: under the lock both orders happen.
C13_LockedBothOrders ==
    /\ ThreadsDone
    /\ thr.sync
    /\ thr.t[1].op = "update_parameters"
    /\ Serial21(Whole(thr.start, thr.t[2]))
    /\ ~Serial12(Whole(thr.start, thr.t[1]))

=============================================================================
